---- MODULE Spec2Model ----
(***************************************************************************)
(* NarrowMind S2: TF-IDF sentence ranking (src/model.js, second, stemmed   *)
(* NarrowMindModel class, lines 175-389).                                  *)
(*                                                                         *)
(* A JavaScript string is a sequence of characters, each character a       *)
(* one-element TLA+ string; the two curly double quotes are written        *)
(* "ldquo" and "rdquo".  A JavaScript value is a record [k, n, s]: its     *)
(* type tag, its number (numbers only) and its characters (strings only).  *)
(* Numbers of the scoring (TF, IDF, cosine) are fixed point, in units of   *)
(* 1/Scale.                                                                *)
(***************************************************************************)
EXTENDS Integers, Sequences, FiniteSets, TLC

VARIABLES rawData, tokens, sentences, corpusDocs, idfCache, op, args, ret, threw

vars == <<rawData, tokens, sentences, corpusDocs, idfCache, op, args, ret, threw>>

corpus == <<rawData, tokens, sentences, corpusDocs>>

----------------------------------------------------------------------------
(* Characters *)

LowerChars == <<"a","b","c","d","e","f","g","h","i","j","k","l","m",
                "n","o","p","q","r","s","t","u","v","w","x","y","z">>

UpperChars == <<"A","B","C","D","E","F","G","H","I","J","K","L","M",
                "N","O","P","Q","R","S","T","U","V","W","X","Y","Z">>

Range(f) == {f[i] : i \in DOMAIN f}

Letters == Range(LowerChars) \cup Range(UpperChars)

Digits == {"0","1","2","3","4","5","6","7","8","9"}

\* what String.prototype.trim strips
Whitespace == {" ", "\n", "\t"}

\* punctuation of the model's texts: the ten characters the specification
\* lists as sentence separators (newline is in Whitespace) and a hyphen
Punctuation == {".", "!", "?", ",", "dquote", "ldquo", "rdquo", ":", ";", "-"}

Chars == Letters \cup Digits \cup Whitespace \cup Punctuation

\* /[^\p{L}\p{N}]+/u : the characters that are neither letter nor digit
TokenDelims == Chars \ (Letters \cup Digits)

\* /[.!?,"""":;\n]+/ : the character class of model.js holds the straight
\* double quote four times and no curly quote
SentenceDelims == {".", "!", "?", ",", "dquote", ":", ";", "\n"}

\* /[.!?,"”“:;\n]+/ : the character class of index.js
CliSentenceDelims == {".", "!", "?", ",", "dquote", "rdquo", "ldquo", ":", ";", "\n"}

----------------------------------------------------------------------------
(* JavaScript values *)

Str(s) == [k |-> "string", n |-> 0, s |-> s]

Num(n) == [k |-> "number", n |-> n, s |-> <<>>]

Null == [k |-> "null", n |-> 0, s |-> <<>>]

Undefined == [k |-> "undefined", n |-> 0, s |-> <<>>]

IsString(v) == v.k = "string"

\* !v
Falsy(v) ==
    \/ v.k \in {"null", "undefined"}
    \/ v.k = "string" /\ v.s = <<>>
    \/ v.k = "number" /\ v.n = 0

\* the guard without its typeof test
InvalidTextFalsyOnly(v) == Falsy(v)

\* the guard of every parsing entry point: !text || typeof text !== 'string'
InvalidText(v) == Falsy(v) \/ ~IsString(v)

\* a method of String.prototype (trim, toLowerCase) called on v raises a
\* TypeError when v is not a string
NoStringMethod(v) == ~IsString(v)

----------------------------------------------------------------------------
(* String operations *)

\* the lower-case form of every character
LowerOf ==
    [c \in Chars |->
        IF \E i \in 1..Len(UpperChars) : UpperChars[i] = c
        THEN LowerChars[CHOOSE i \in 1..Len(UpperChars) : UpperChars[i] = c]
        ELSE c]

LowerChar(c) == LowerOf[c]

toLowerCase(s) == [i \in 1..Len(s) |-> LowerChar(s[i])]

SetMin(S) == CHOOSE x \in S : \A y \in S : x <= y

RECURSIVE trimStart(_)
trimStart(s) ==
    IF s # <<>> /\ Head(s) \in Whitespace THEN trimStart(Tail(s)) ELSE s

RECURSIVE trimEnd(_)
trimEnd(s) ==
    IF s # <<>> /\ s[Len(s)] \in Whitespace THEN trimEnd(SubSeq(s, 1, Len(s) - 1)) ELSE s

trim(s) == trimEnd(trimStart(s))

endsWith(s, suffix) ==
    /\ Len(suffix) <= Len(s)
    /\ SubSeq(s, Len(s) - Len(suffix) + 1, Len(s)) = suffix

\* s.slice(0, -n)
sliceOff(s, n) == SubSeq(s, 1, Len(s) - n)

RECURSIVE SplitFrom(_, _, _, _, _)
\* String.prototype.split on /[D]+/ : cur is the piece being read, acc the
\* pieces read; a run of separators ends one piece, however long the run
SplitFrom(s, D, i, cur, acc) ==
    IF i > Len(s) THEN Append(acc, cur)
    ELSE IF s[i] \in D
         THEN IF i > 1 /\ s[i-1] \in D
              THEN SplitFrom(s, D, i + 1, cur, acc)
              ELSE SplitFrom(s, D, i + 1, <<>>, Append(acc, cur))
         ELSE SplitFrom(s, D, i + 1, Append(cur, s[i]), acc)

split(s, D) == SplitFrom(s, D, 1, <<>>, <<>>)

\* .filter(Boolean) on an array of strings
filterBoolean(pieces) == SelectSeq(pieces, LAMBDA p : p # <<>>)

----------------------------------------------------------------------------
(* Stemmer: NarrowMindModel.stemWord *)

\* [suffix, minLength, replacement]; replacement <<>> is null
suffixes == <<
    [suffix |-> <<"i","e","s">>,     minLength |-> 4, replacement |-> <<"y">>],
    [suffix |-> <<"e","s">>,         minLength |-> 4, replacement |-> <<>>],
    [suffix |-> <<"s">>,             minLength |-> 3, replacement |-> <<>>],
    [suffix |-> <<"i","n","g">>,     minLength |-> 5, replacement |-> <<>>],
    [suffix |-> <<"e","d">>,         minLength |-> 4, replacement |-> <<>>],
    [suffix |-> <<"e","r">>,         minLength |-> 4, replacement |-> <<>>],
    [suffix |-> <<"e","s","t">>,     minLength |-> 5, replacement |-> <<>>],
    [suffix |-> <<"l","y">>,         minLength |-> 4, replacement |-> <<>>],
    [suffix |-> <<"t","i","o","n">>, minLength |-> 6, replacement |-> <<>>],
    [suffix |-> <<"n","e","s","s">>, minLength |-> 6, replacement |-> <<>>],
    [suffix |-> <<"m","e","n","t">>, minLength |-> 6, replacement |-> <<>>] >>

\* lowerWord.endsWith(suffix) && lowerWord.length > minLength
ruleMatches(lowerWord, rule) ==
    endsWith(lowerWord, rule.suffix) /\ Len(lowerWord) > rule.minLength

\* stemWord on a string: a word of fewer than 3 characters is returned as it
\* is, before any lower-casing; otherwise the first matching rule is applied
stemWord(word) ==
    IF word = <<>> \/ Len(word) < 3 THEN word
    ELSE LET lowerWord == toLowerCase(word)
             hits == {i \in 1..Len(suffixes) : ruleMatches(lowerWord, suffixes[i])}
         IN  IF hits = {} THEN lowerWord
             ELSE LET rule == suffixes[SetMin(hits)]
                  IN  sliceOff(lowerWord, Len(rule.suffix)) \o rule.replacement

----------------------------------------------------------------------------
(* Tokenizer: parseTokens, parseTokensStemmed, parseSentences *)

parseTokens(v) ==
    IF InvalidText(v) THEN <<>>
    ELSE filterBoolean(split(trim(v.s), TokenDelims))

parseTokensStemmed(v) ==
    IF InvalidText(v) THEN <<>>
    ELSE LET toks == parseTokens(v)
         IN  [i \in 1..Len(toks) |-> stemWord(toLowerCase(toks[i]))]

\* split on the separators D, trim every span, drop the empty ones
segment(s, D) ==
    LET spans == split(s, D)
    IN  filterBoolean([i \in 1..Len(spans) |-> trim(spans[i])])

parseSentences(v) ==
    IF InvalidText(v) THEN <<>>
    ELSE segment(v.s, SentenceDelims)

\* index.js parseSentences (no guard: the script passes the file's text)
cliParseSentences(s) == segment(s, CliSentenceDelims)

----------------------------------------------------------------------------
(* Fixed-point arithmetic *)

\* one unit of the fixed-point numbers: 1.0 is Scale
Scale == 1000

\* Math.log(n) for n = 1..16, in units of 1/Scale
LnTable == <<0, 693, 1099, 1386, 1609, 1792, 1946, 2079,
             2197, 2303, 2398, 2485, 2565, 2639, 2708, 2773>>

\* Math.log(a / b) for whole numbers a, b
MathLog(a, b) == LnTable[a] - LnTable[b]

\* a * b and a / b of two fixed-point numbers
FMul(a, b) == (a * b) \div Scale

FDiv(a, b) == (a * Scale) \div b

RECURSIVE IsqrtIn(_, _, _)
\* the largest r in lo..hi with r * r <= x
IsqrtIn(x, lo, hi) ==
    IF lo >= hi THEN lo
    ELSE LET mid == (lo + hi + 1) \div 2
         IN  IF mid * mid <= x THEN IsqrtIn(x, mid, hi) ELSE IsqrtIn(x, lo, mid - 1)

\* Math.sqrt of a sum of squares of fixed-point numbers (x is in units of
\* 1/Scale^2, the root in units of 1/Scale)
MathSqrt(x) == IsqrtIn(x, 0, IF x < 46340 THEN x ELSE 46340)

RECURSIVE SumSeq(_)
SumSeq(q) == IF q = <<>> THEN 0 ELSE Head(q) + SumSeq(Tail(q))

----------------------------------------------------------------------------
(* TF, IDF and the IDF cache *)

count(x, list) == Cardinality({i \in 1..Len(list) : list[i] = x})

calculateTF(token, wordList) ==
    IF Len(wordList) = 0 THEN 0
    ELSE (count(token, wordList) * Scale) \div Len(wordList)

\* doc.includes(token): a token that is no string equals no element
includes(doc, token) == IsString(token) /\ \E j \in 1..Len(doc) : doc[j] = token.s

docFrequency(token, documents) ==
    Cardinality({d \in 1..Len(documents) : includes(documents[d], token)})

\* the quotient of the logarithm turned over: (df + 1) / (N + 1)
calculateIDFInverted(token, documents) ==
    IF Len(documents) = 0 THEN 0
    ELSE MathLog(docFrequency(token, documents) + 1, Len(documents) + 1) + Scale

calculateIDF(token, documents) ==
    IF Len(documents) = 0 THEN 0
    ELSE MathLog(Len(documents) + 1, docFrequency(token, documents) + 1) + Scale

RECURSIVE Flat(_)
Flat(docs) == IF docs = <<>> THEN <<>> ELSE Head(docs) \o Flat(Tail(docs))

\* the Map built by precomputeIDF, a function from the stemmed tokens of the
\* documents to their IDF
precomputeIDF(docs) ==
    [key \in {Str(t) : t \in Range(Flat(docs))} |-> calculateIDF(key, docs)]

\* the cache replaced by a new Map holding the one entry
cacheSetFresh(cache, token, idf) == (token :> idf)

\* this.idfCache.set(token, idf)
cacheSet(cache, token, idf) == (token :> idf) @@ cache

\* getIDF caching the logarithm without the 1 added to it
getIDFCachesUnsmoothed(cache, docs, token) ==
    IF token \in DOMAIN cache
    THEN [val |-> cache[token], cache |-> cache]
    ELSE LET idf == calculateIDF(token, docs)
         IN  [val |-> idf, cache |-> cacheSet(cache, token, idf - Scale)]

\* getIDF: the value returned and the cache after the call
getIDF(cache, docs, token) ==
    IF token \in DOMAIN cache
    THEN [val |-> cache[token], cache |-> cache]
    ELSE LET idf == calculateIDF(token, docs)
         IN  [val |-> idf, cache |-> cacheSet(cache, token, idf)]

----------------------------------------------------------------------------
(* Similarity engine: calculateTFIDFSimilarity *)

RECURSIVE Dedupe(_, _)
\* [...new Set(list)]: first occurrences, in order
Dedupe(list, seen) ==
    IF list = <<>> THEN <<>>
    ELSE IF Head(list) \in seen THEN Dedupe(Tail(list), seen)
         ELSE <<Head(list)>> \o Dedupe(Tail(list), seen \cup {Head(list)})

\* const x = value; Body(x): the value is computed once and then used
Bind(value, Body(_)) == CHOOSE out \in {Body(x) : x \in {value}} : TRUE

RECURSIVE tfidfVector(_, _, _, _, _, _)
\* vocab.map(token => calculateTF(token, words) * getIDF(token)) from position
\* i on, vec holding the components before i: the vector and the cache after
\* the getIDF calls
tfidfVector(vocab, words, i, cache, docs, vec) ==
    IF i > Len(vocab) THEN [vec |-> vec, cache |-> cache]
    ELSE Bind(getIDF(cache, docs, Str(vocab[i])), LAMBDA g :
         Bind(Append(vec, FMul(calculateTF(vocab[i], words), g.val)), LAMBDA vec2 :
             tfidfVector(vocab, words, i + 1, g.cache, docs, vec2)))

\* dot / (mag1 * mag2), 0 when a magnitude is 0
cosine(vec1, vec2) ==
    LET dot == SumSeq([i \in 1..Len(vec1) |-> FMul(vec1[i], vec2[i])])
        mag1 == MathSqrt(SumSeq([i \in 1..Len(vec1) |-> vec1[i] * vec1[i]]))
        mag2 == MathSqrt(SumSeq([i \in 1..Len(vec2) |-> vec2[i] * vec2[i]]))
    IN  IF mag1 = 0 \/ mag2 = 0 THEN 0
        ELSE FDiv(dot, FMul(mag1, mag2))

\* calculateTFIDFSimilarity: the score and the cache after the call
calculateTFIDFSimilarity(cache, docs, sentence1, sentence2) ==
    Bind(parseTokensStemmed(sentence1), LAMBDA words1 :
    Bind(parseTokensStemmed(sentence2), LAMBDA words2 :
        IF Len(words1) = 0 \/ Len(words2) = 0 THEN [val |-> 0, cache |-> cache]
        ELSE Bind(Dedupe(words1 \o words2, {}), LAMBDA vocab :
             Bind(tfidfVector(vocab, words1, 1, cache, docs, <<>>), LAMBDA v1 :
             Bind(tfidfVector(vocab, words2, 1, v1.cache, docs, <<>>), LAMBDA v2 :
                 [val |-> cosine(v1.vec, v2.vec), cache |-> v2.cache])))))

----------------------------------------------------------------------------
(* Ranker: rankSentences *)

\* the test with >= for >
keepRankNonNegative(similarity) == similarity >= 0

\* if (similarity > 0) sentenceRanks.push(...)
keepRank(similarity) == similarity > 0

RECURSIVE rankLoop(_, _, _, _, _, _)
\* for (const sentence of this.sentences), from sentence i on, acc holding the
\* pairs pushed before: the pairs pushed, in document order, and the cache
\* after the loop
rankLoop(query, sents, docs, i, cache, acc) ==
    IF i > Len(sents) THEN [val |-> acc, cache |-> cache]
    ELSE Bind(calculateTFIDFSimilarity(cache, docs, query, Str(sents[i])), LAMBDA sim :
         Bind(IF keepRank(sim.val) THEN Append(acc, <<sents[i], sim.val>>) ELSE acc,
              LAMBDA acc2 : rankLoop(query, sents, docs, i + 1, sim.cache, acc2)))

RECURSIVE insertByScore(_, _)
\* place pair behind every pair of sorted whose score is not smaller
insertByScore(sorted, pair) ==
    IF sorted = <<>> THEN <<pair>>
    ELSE IF pair[2] - Head(sorted)[2] > 0 THEN <<pair>> \o sorted
         ELSE <<Head(sorted)>> \o insertByScore(Tail(sorted), pair)

RECURSIVE sortFrom(_, _, _)
sortFrom(ranks, i, sorted) ==
    IF i > Len(ranks) THEN sorted
    ELSE sortFrom(ranks, i + 1, insertByScore(sorted, ranks[i]))

\* the pairs left in document order
sortByScoreMissing(ranks) == ranks

\* sentenceRanks.sort((a, b) => b[1] - a[1]): descending, stable
sortByScore(ranks) == sortFrom(ranks, 1, <<>>)

\* topN > 0 ? sentenceRanks.slice(0, topN) : sentenceRanks
topSlice(ranks, topN) ==
    IF topN > 0 THEN SubSeq(ranks, 1, IF topN < Len(ranks) THEN topN ELSE Len(ranks))
    ELSE ranks

rankSentences(cache, sents, docs, query, topN) ==
    IF InvalidText(query) THEN [val |-> <<>>, cache |-> cache]
    ELSE Bind(rankLoop(query, sents, docs, 1, cache, <<>>), LAMBDA loop :
             [val |-> topSlice(sortByScore(loop.val), topN), cache |-> loop.cache])

----------------------------------------------------------------------------
(* Bounds and inputs *)

\* a generated corpus text is made of at most MaxPieces pieces
MaxPieces == 3

\* the stemmer is tried on every word of at most MaxStemLen characters
MaxStemLen == 3

\* "cat ", "dogs ", ". "
Pieces == {<<"c","a","t"," ">>, <<"d","o","g","s"," ">>, <<"."," ">>}

\* "The cat sat. The dog ran fast."
ExampleText == <<"T","h","e"," ","c","a","t"," ","s","a","t","."," ","T","h","e"," ","d","o","g"," ","r","a","n"," ","f","a","s","t",".">>

\* "cat dog. cat", "- . cats", "cat rdquo dog ldquo cat" (curly quotes in the text)
ExtraTexts == {ExampleText,
               <<"c","a","t"," ","d","o","g","."," ","c","a","t">>,
               <<"-"," ","."," ","c","a","t","s">>,
               <<"c","a","t"," ","rdquo","d","o","g","ldquo"," ","c","a","t">>}

GeneratedTexts ==
    {Flat(ps) : ps \in UNION {[1..n -> Pieces] : n \in 0..MaxPieces}}

\* what the model is constructed from: a string, or no string at all
Texts == {Str(s) : s \in GeneratedTexts \cup ExtraTexts} \cup {Null}

\* "cat", "Dogs fish", ""
Queries == {Str(<<"c","a","t">>), Str(<<"D","o","g","s"," ","f","i","s","h">>), Str(<<>>), Null, Num(5)}

TopNs == {0, 1}

\* "cat", "bird"
IdfTokens == {Str(<<"c","a","t">>), Str(<<"b","i","r","d">>), Null}

\* "Cats", ""
TfTokens == {Str(<<"C","a","t","s">>), Str(<<>>), Null}

\* "Dogs"
StatsTokens == {Str(<<"D","o","g","s">>), Undefined}

\* ("cats dog", "cat"), (null, "cat")
SimilarityPairs == {<<Str(<<"c","a","t","s"," ","d","o","g">>), Str(<<"c","a","t">>)>>,
                    <<Null, Str(<<"c","a","t">>)>>}

StemAlphabet == {"A", "b", "e", "s"}

\* "running", "cats", "flies", "faster", "happiness"
StemExamples == {<<"r","u","n","n","i","n","g">>,
                 <<"c","a","t","s">>,
                 <<"f","l","i","e","s">>,
                 <<"f","a","s","t","e","r">>,
                 <<"h","a","p","p","i","n","e","s","s">>}

StemWords ==
    UNION {[1..n -> StemAlphabet] : n \in 0..MaxStemLen} \cup StemExamples

\* the result of the last call: the array, the number, the string or the
\* object it returned, by the type of what it returns; NoResult when the call
\* has returned nothing (it raised, or it is the construction)
NoResult == [list |-> <<>>, num |-> 0, str |-> <<>>,
             stats |-> [token |-> <<>>, tf |-> 0, idf |-> 0]]

ListResult(list) == [NoResult EXCEPT !.list = list]

NumResult(num) == [NoResult EXCEPT !.num = num]

StrResult(str) == [NoResult EXCEPT !.str = str]

StatsResult(stats) == [NoResult EXCEPT !.stats = stats]

----------------------------------------------------------------------------
(* The corpus model: construction and calls *)

\* constructor(data)
Construct(data) ==
    /\ rawData = data
    /\ tokens = parseTokens(data)
    /\ sentences = parseSentences(data)
    /\ corpusDocs = [i \in 1..Len(parseSentences(data)) |->
                        parseTokensStemmed(Str(parseSentences(data)[i]))]
    /\ idfCache = precomputeIDF([i \in 1..Len(parseSentences(data)) |->
                        parseTokensStemmed(Str(parseSentences(data)[i]))])

Init ==
    /\ \E data \in Texts : Construct(data)
    /\ op = "constructor"
    /\ args = <<>>
    /\ ret = NoResult
    /\ threw = FALSE

\* text.trim() in parseTokens is reached with a value that is no string
parseTokensThrows(v) == ~InvalidText(v) /\ NoStringMethod(v)

similarityThrows(sentence1, sentence2) ==
    parseTokensThrows(sentence1) \/ parseTokensThrows(sentence2)

rankThrows(query) ==
    /\ ~InvalidText(query)
    /\ \E i \in 1..Len(sentences) : similarityThrows(query, Str(sentences[i]))

RankSentencesCall(query, topN) ==
    /\ op' = "rankSentences"
    /\ args' = <<query, topN>>
    /\ IF rankThrows(query)
       THEN threw' = TRUE /\ ret' = NoResult /\ idfCache' = idfCache
       ELSE LET r == rankSentences(idfCache, sentences, corpusDocs, query, topN)
            IN  threw' = FALSE /\ ret' = ListResult(r.val) /\ idfCache' = r.cache
    /\ UNCHANGED corpus

GetIDFCall(token) ==
    /\ op' = "getIDF"
    /\ args' = <<token>>
    /\ LET r == getIDF(idfCache, corpusDocs, token)
       IN  threw' = FALSE /\ ret' = NumResult(r.val) /\ idfCache' = r.cache
    /\ UNCHANGED corpus

\* getTF on a string
getTF(token) ==
    LET stemmedToken == stemWord(toLowerCase(token))
        stemmedTokens == parseTokensStemmed(rawData)
    IN  calculateTF(stemmedToken, stemmedTokens)

GetTFCall(token) ==
    /\ op' = "getTF"
    /\ args' = <<token>>
    /\ IF NoStringMethod(token)
       THEN threw' = TRUE /\ ret' = NoResult
       ELSE threw' = FALSE /\ ret' = NumResult(getTF(token.s))
    /\ idfCache' = idfCache
    /\ UNCHANGED corpus

GetTokenStatsCall(token) ==
    /\ op' = "getTokenStats"
    /\ args' = <<token>>
    /\ IF NoStringMethod(token)
       THEN threw' = TRUE /\ ret' = NoResult /\ idfCache' = idfCache
       ELSE LET normalizedToken == toLowerCase(token.s)
                stemmedToken == stemWord(normalizedToken)
                idf == getIDF(idfCache, corpusDocs, Str(stemmedToken))
            IN  /\ threw' = FALSE
                /\ ret' = StatsResult([token |-> stemmedToken,
                                        tf |-> getTF(normalizedToken),
                                        idf |-> idf.val])
                /\ idfCache' = idf.cache
    /\ UNCHANGED corpus

CalculateTFIDFSimilarityCall(sentence1, sentence2) ==
    /\ op' = "calculateTFIDFSimilarity"
    /\ args' = <<sentence1, sentence2>>
    /\ IF similarityThrows(sentence1, sentence2)
       THEN threw' = TRUE /\ ret' = NoResult /\ idfCache' = idfCache
       ELSE LET r == calculateTFIDFSimilarity(idfCache, corpusDocs, sentence1, sentence2)
            IN  threw' = FALSE /\ ret' = NumResult(r.val) /\ idfCache' = r.cache
    /\ UNCHANGED corpus

Next ==
    \/ \E query \in Queries, topN \in TopNs : RankSentencesCall(query, topN)
    \/ \E token \in IdfTokens : GetIDFCall(token)
    \/ \E token \in TfTokens : GetTFCall(token)
    \/ \E token \in StatsTokens : GetTokenStatsCall(token)
    \/ \E pair \in SimilarityPairs : CalculateTFIDFSimilarityCall(pair[1], pair[2])

Spec == Init /\ [][Next]_vars

----------------------------------------------------------------------------
(* The stemmer alone: stemWord applied to a word *)

InitStem ==
    /\ Construct(Str(<<>>))
    /\ op = "input"
    /\ \E word \in StemWords : args = <<Str(word)>>
    /\ ret = NoResult
    /\ threw = FALSE

StemWordCall ==
    /\ op = "input"
    /\ op' = "stemWord"
    /\ ret' = StrResult(stemWord(args[1].s))
    /\ UNCHANGED <<corpus, idfCache, args, threw>>

NextStem == StemWordCall

StemSpec == InitStem /\ [][NextStem]_vars

----------------------------------------------------------------------------
(* Properties *)

N == Len(corpusDocs)

\* the empty string, or no string
EmptyOrNonString(v) == ~IsString(v) \/ v.s = <<>>

\* the sentences of a rankSentences result
RankedSentences(ranks) == {ranks[j][1] : j \in 1..Len(ranks)}

\* the stemmed tokens of the query and of the sentence have a token in common
SharesToken(query, sentence) ==
    Range(parseTokensStemmed(query)) \cap Range(parseTokensStemmed(Str(sentence))) # {}

\* what rankSentences returns on the model as it was constructed
FreshRank(query, topN) ==
    rankSentences(precomputeIDF(corpusDocs), sentences, corpusDocs, query, topN).val

\* C1: the sequence rankSentences returns is ordered by score, non-increasing,
\* every score in it is greater than 0, and with topN > 0 it has at most topN
\* entries.
C1_RankSortedPositiveBounded ==
    (op = "rankSentences" /\ ~threw) =>
        /\ \A i \in 1..(Len(ret.list) - 1) : ret.list[i][2] >= ret.list[i + 1][2]
        /\ \A i \in 1..Len(ret.list) : ret.list[i][2] > 0
        /\ args[2] > 0 => Len(ret.list) <= args[2]

\* C1 witness: a call with topN = 1 on a corpus of which two sentences score,
\* the later sentence better: the sort moved it first and the slice cut the other
C1_Witness ==
    /\ op = "rankSentences" /\ ~threw
    /\ args[2] = 1 /\ Len(ret.list) = 1
    /\ Len(FreshRank(args[1], 0)) = 2
    /\ Len(sentences) = 2 /\ ret.list[1][1] = sentences[2] /\ sentences[1] # sentences[2]

\* C2: rankSentences(query, 0) holds a sentence of the model exactly when the
\* stemmed tokens of the query and of the sentence have a token in common; on
\* "The cat sat. The dog ran fast." the query "cat" gives "The cat sat" with a
\* score above 0 and not "The dog ran fast".
C2_RankedIffSharedToken ==
    (op = "rankSentences" /\ ~threw /\ args[2] = 0) =>
        /\ \A i \in 1..Len(sentences) :
              (sentences[i] \in RankedSentences(ret.list)) <=> SharesToken(args[1], sentences[i])
        /\ (rawData = Str(ExampleText) /\ args[1] = Str(<<"c","a","t">>)) =>
              /\ \E j \in 1..Len(ret.list) :
                    ret.list[j][1] = <<"T","h","e"," ","c","a","t"," ","s","a","t">> /\ ret.list[j][2] > 0
              /\ <<"T","h","e"," ","d","o","g"," ","r","a","n"," ","f","a","s","t">>
                    \notin RankedSentences(ret.list)

\* C2 witness: the query "cat" ranked on the example text, one sentence
\* returned and one left out
C2_Witness ==
    /\ op = "rankSentences" /\ ~threw
    /\ rawData = Str(ExampleText) /\ args = <<Str(<<"c","a","t">>), 0>>
    /\ Len(sentences) = 2 /\ Len(ret.list) = 1

\* C3: rankSentences called with the empty string or with a value that is no
\* string returns the empty sequence, raises nothing and leaves the IDF cache
\* as it was.
C3_InvalidQueryRanksNothing ==
    [][(op' = "rankSentences" /\ EmptyOrNonString(args'[1])) =>
          (~threw' /\ ret'.list = <<>> /\ idfCache' = idfCache)]_vars

\* C3 witness: such a call made on a corpus with sentences, whose cache holds
\* entries added after construction
C3_Witness ==
    /\ op = "rankSentences" /\ EmptyOrNonString(args[1]) /\ ~IsString(args[1])
    /\ ~threw /\ ret.list = <<>>
    /\ Len(sentences) >= 2
    /\ idfCache # precomputeIDF(corpusDocs)

\* C4: after getIDF, a second getIDF with the same token returns the same
\* value; a getIDF call changes neither the documents nor an entry cached
\* before it; and rankSentences returns what it returns on the model as
\* constructed, whatever calls were made before.
C4_GetIDFIdempotent ==
    /\ [](op = "getIDF" => getIDF(idfCache, corpusDocs, args[1]).val = ret.num)
    /\ []((op = "rankSentences" /\ ~threw) => ret.list = FreshRank(args[1], args[2]))
    /\ [][op' = "getIDF" =>
            /\ corpus' = corpus
            /\ \A key \in DOMAIN idfCache :
                  key \in DOMAIN idfCache' /\ idfCache'[key] = idfCache[key]]_vars

\* C4 witness: a ranking that returns sentences, made after getIDF("bird") put
\* a token in the cache that no document and no query holds
C4_Witness ==
    /\ op = "rankSentences" /\ ~threw /\ Len(ret.list) >= 1
    /\ Str(<<"b","i","r","d">>) \in DOMAIN idfCache

\* C5: an argument that is no string, or the empty string, at rankSentences,
\* calculateTFIDFSimilarity, getTF, getIDF or getTokenStats gives the empty
\* sequence or a zero score and raises nothing.
C5_InvalidArgumentsNeverRaise ==
    /\ (op \in {"rankSentences", "getTF", "getIDF", "getTokenStats"}
            /\ EmptyOrNonString(args[1])) => ~threw
    /\ (op = "calculateTFIDFSimilarity"
            /\ (EmptyOrNonString(args[1]) \/ EmptyOrNonString(args[2]))) =>
                (~threw /\ ret.num = 0)
    /\ (op = "rankSentences" /\ EmptyOrNonString(args[1])) => ret.list = <<>>
    /\ (op \in {"getTF", "getIDF"} /\ EmptyOrNonString(args[1])) => ret.num = 0
    /\ (op = "getTokenStats" /\ EmptyOrNonString(args[1])) =>
            (ret.stats.tf = 0 /\ ret.stats.idf = 0)

\* the bounds of C6 on one IDF value
IdfInRange(idf) == idf > 0 /\ idf <= LnTable[N + 1] + Scale

\* the IDF does not grow with the document frequency
IdfMonotone ==
    \A k1, k2 \in DOMAIN idfCache :
        docFrequency(k1, corpusDocs) <= docFrequency(k2, corpusDocs) =>
            idfCache[k1] >= idfCache[k2]

C7_ShortWordLowered ==
    (op = "stemWord" /\ Len(args[1].s) < 3) => ret.str = toLowerCase(args[1].s)

\* C8: stemWord gives "runn" for "running", "cat" for "cats", "fly" for
\* "flies", "fast" for "faster" and, by the ness rule, "happi" for "happiness".
C8_StemExamples ==
    op = "stemWord" =>
        /\ args[1].s = <<"r","u","n","n","i","n","g">> => ret.str = <<"r","u","n","n">>
        /\ args[1].s = <<"c","a","t","s">> => ret.str = <<"c","a","t">>
        /\ args[1].s = <<"f","l","i","e","s">> => ret.str = <<"f","l","y">>
        /\ args[1].s = <<"f","a","s","t","e","r">> => ret.str = <<"f","a","s","t">>
        /\ args[1].s = <<"h","a","p","p","i","n","e","s","s">> =>
              ret.str = <<"h","a","p","p","i">>

\* the separators C9 lists: . ! ? , the straight double quote, the two curly
\* double quotes, : ; and newline
C9_Separators == {".", "!", "?", ",", "dquote", "ldquo", "rdquo", ":", ";", "\n"}

\* C9: the sentences of the corpus model are the spans of the text between
\* maximal runs of the listed separators, trimmed, the empty ones dropped; text
\* on the two sides of a curly double quote is two sentences.
C9_SentencesSplitOnCurlyQuotes ==
    IsString(rawData) => sentences = segment(rawData.s, C9_Separators)

\* C10: the IDF cache only grows: a key in it stays in it with its value; an
\* entry is added only by getIDF, for a key that was absent, in getIDF itself,
\* the similarity, the ranking or getTokenStats; getTF never changes it.
C10_CacheAppendOnly ==
    [][/\ \A key \in DOMAIN idfCache :
             key \in DOMAIN idfCache' /\ idfCache'[key] = idfCache[key]
       /\ \A key \in DOMAIN idfCache' \ DOMAIN idfCache :
             /\ idfCache'[key] = calculateIDF(key, corpusDocs)
             /\ op' \in {"getIDF", "calculateTFIDFSimilarity", "rankSentences",
                         "getTokenStats"}
       /\ op' = "getTF" => idfCache' = idfCache]_vars

\* C10 witness: getTF returned on a cache that holds two or more entries added
\* after construction
C10_Witness ==
    /\ op = "getTF" /\ ~threw
    /\ Cardinality(DOMAIN idfCache \ DOMAIN precomputeIDF(corpusDocs)) >= 2
    /\ DOMAIN precomputeIDF(corpusDocs) # {}

====
